---- MODULE Spec2Model ----
(***************************************************************************)
(* A model of transcript_cleaner.py (class TranscriptCleaner).             *)
(*                                                                         *)
(* Strings are sequences of one-character strings.  The character set of   *)
(* the model is                                                            *)
(*     &  ;  l  t  <  >  .  space  newline                                 *)
(* plus the character U+226A, which only entity decoding can produce.      *)
(* The entity table of html.unescape is restricted to the names that can   *)
(* be spelled with these characters (lt, lt; and ll;); numeric character   *)
(* references need '#', which is not in the character set.  Speaker      *)
(* names, which clean_text never sees, are written with A and B.           *)
(***************************************************************************)
EXTENDS Naturals, Sequences, FiniteSets

VARIABLES
  pc,            \* the position of the run
  text,          \* clean_text: the argument
  cleaned,       \* clean_text: the result
  recleaned,     \* clean_text applied to cleaned
  html_content,  \* extract_speaker_and_text: the argument, a token sequence
  transcript,    \* the list of (speaker, dialogue) tuples
  speakers,      \* the dict of organize_by_speaker, in insertion order
  output_text,   \* the lines of format_output
  chronological_text,  \* the lines of format_chronological_output
  file_path,     \* process_file: the argument
  output_dir,    \* what the run did to each file of the output directory
  input_dir,     \* the entries of the input directory, in scan order
  content,       \* the text of each entry of the input directory
  raw_files,     \* process_all_files: the list of the files to process
  file_index,    \* process_all_files: the position of the loop in raw_files
  successful,    \* process_all_files: the counter of the files that succeeded
  failed,        \* process_all_files: the counter of the files that failed
  calls          \* the calls of process_file that returned, as the console
                 \* shows them: the file, the result and what was printed

cleaning == <<text, cleaned, recleaned>>

render == <<speakers, output_text, chronological_text>>

batch == <<input_dir, content, raw_files, file_index, successful, failed, calls>>

vars ==
  <<pc, cleaning, html_content, transcript, render, file_path, output_dir, batch>>

\* clean_text is not running.
NoCleaning == text = <<>> /\ cleaned = <<>> /\ recleaned = <<>>

\* The locals of process_file before anything is rendered.
NoRender == speakers = <<>> /\ output_text = <<>> /\ chronological_text = <<>>

\* ------------------------------------------------------------------ bounds
\* The longest input of clean_text, counted in pieces of Pieces.
MaxPieces == 4

\* The most paragraphs of a document.
MaxSegs == 2

\* The most utterances of a transcript given to the renderers.
MaxUtt == 3

\* The most entries of the input directory.
MaxFiles == 3

\* ------------------------------------------------------------ characters
\* Python's \s and str.strip() whitespace, within the character set.
Whitespace == {" ", "\n"}

\* The character class [.,!?;:] of the punctuation pass.
Punctuation == {".", ",", "!", "?", ";", ":"}

Max(S) == CHOOSE x \in S : \A y \in S : y <= x

\* ------------------------------------------------------------ html.unescape
\* html.entities.html5, restricted to the names over the character set.
Html5Names == {<<"l", "t">>, <<"l", "t", ";">>, <<"l", "l", ";">>}

Html5(name) == IF name = <<"l", "l", ";">> THEN "U+226A" ELSE "<"

\* The class [^\t\n\f <&#;] of the characters of an entity name.
NameChar(c) == c \notin {"\t", "\n", "\f", " ", "<", "&", "#", ";"}

\* How many name characters start at position i (at most 32, as {1,32}).
RECURSIVE NameRun(_, _, _)
NameRun(s, i, n) ==
  IF n < 32 /\ i + n <= Len(s) /\ NameChar(s[i + n])
  THEN NameRun(s, i, n + 1)
  ELSE n

\* The length of group 1 of _charref matched at the '&' of position i,
\* 0 when the pattern does not match there: a name and an optional ';'.
CharrefLen(s, i) ==
  LET n == NameRun(s, i + 1, 0)
  IN  IF n = 0 THEN 0
      ELSE IF i + n + 1 <= Len(s) /\ s[i + n + 1] = ";" THEN n + 1
      ELSE n

\* html._replace_charref for a named reference: the name itself, else the
\* longest proper prefix of two or more characters that is a name, else
\* the text unchanged.
ReplaceCharref(s) ==
  IF s \in Html5Names THEN <<Html5(s)>>
  ELSE LET xs == {x \in 2..(Len(s) - 1) : SubSeq(s, 1, x) \in Html5Names}
       IN  IF xs # {}
           THEN <<Html5(SubSeq(s, 1, Max(xs)))>> \o SubSeq(s, Max(xs) + 1, Len(s))
           ELSE <<"&">> \o s

RECURSIVE UnescapeFrom(_, _)
UnescapeFrom(s, i) ==
  IF i > Len(s) THEN <<>>
  ELSE IF s[i] = "&" /\ CharrefLen(s, i) > 0
  THEN ReplaceCharref(SubSeq(s, i + 1, i + CharrefLen(s, i)))
         \o UnescapeFrom(s, i + CharrefLen(s, i) + 1)
  ELSE <<s[i]>> \o UnescapeFrom(s, i + 1)

\* html.unescape(text)
Unescape(s) == UnescapeFrom(s, 1)

\* ------------------------------------------------------- the regex passes
\* The length of the whitespace run that starts at position i.
RECURSIVE WsRun(_, _, _)
WsRun(s, i, n) ==
  IF i + n <= Len(s) /\ s[i + n] \in Whitespace THEN WsRun(s, i, n + 1) ELSE n

\* re.sub(r'\s+', ' ', text)
RECURSIVE CollapseFrom(_, _)
CollapseFrom(s, i) ==
  IF i > Len(s) THEN <<>>
  ELSE IF s[i] \in Whitespace
  THEN <<" ">> \o CollapseFrom(s, i + WsRun(s, i, 0))
  ELSE <<s[i]>> \o CollapseFrom(s, i + 1)

CollapseWhitespace(s) == CollapseFrom(s, 1)

\* re.sub(r'\s+([.,!?;:])', r'\1', text)
RECURSIVE PunctFrom(_, _)
PunctFrom(s, i) ==
  IF i > Len(s) THEN <<>>
  ELSE LET n == WsRun(s, i, 0)
       IN  IF n > 0 /\ i + n <= Len(s) /\ s[i + n] \in Punctuation
           THEN <<s[i + n]>> \o PunctFrom(s, i + n + 1)
           ELSE <<s[i]>> \o PunctFrom(s, i + 1)

CleanPunctuation(s) == PunctFrom(s, 1)

\* The position of the first '>' at or after position j, 0 when there is none.
RECURSIVE FirstClose(_, _)
FirstClose(s, j) ==
  IF j > Len(s) THEN 0
  ELSE IF s[j] = ">" THEN j
  ELSE FirstClose(s, j + 1)

\* re.sub(r'<[^>]+>', '', text): a tag is a '<', one or more characters
\* other than '>', and the first '>' that follows.
RECURSIVE StripFrom(_, _)
StripFrom(s, i) ==
  IF i > Len(s) THEN <<>>
  ELSE LET j == FirstClose(s, i + 1)
       IN  IF s[i] = "<" /\ j >= i + 2
           THEN StripFrom(s, j + 1)
           ELSE <<s[i]>> \o StripFrom(s, i + 1)

StripTags(s) == StripFrom(s, 1)

\* str.strip()
RECURSIVE LStrip(_)
LStrip(s) ==
  IF s # <<>> /\ Head(s) \in Whitespace THEN LStrip(Tail(s)) ELSE s

RECURSIVE RStrip(_)
RStrip(s) ==
  IF s # <<>> /\ s[Len(s)] \in Whitespace
  THEN RStrip(SubSeq(s, 1, Len(s) - 1))
  ELSE s

Strip(s) == LStrip(RStrip(s))

\* clean_text with the tag pass moved before the entity decoding.
clean_text_tags_first(s) ==
  Strip(CleanPunctuation(CollapseWhitespace(Unescape(StripTags(s)))))

\* TranscriptCleaner.clean_text
clean_text(s) ==
  Strip(StripTags(CleanPunctuation(CollapseWhitespace(Unescape(s)))))

\* ------------------------------------------------------------ files
\* A path of the input directory: Path.stem and Path.suffix.
File(stem, suffix) == [stem |-> stem, suffix |-> suffix]

\* The file named example-meeting.raw.
ExampleFile == File("example-meeting", ".raw")

\* The files process_file can write: <stem>_by_speaker.txt and
\* <stem>_chronological.txt.
OutputNames ==
  {"a", "b", "example-meeting", "notes", "t"}
    \X {"_by_speaker.txt", "_chronological.txt"}

\* No file of the output directory was opened.
Untouched == [o \in OutputNames |-> "untouched"]

\* A run of one function: no directory is scanned.
NoBatch ==
  /\ file_path = File("t", ".raw")
  /\ output_dir = Untouched
  /\ input_dir = <<>>
  /\ content = <<>>
  /\ raw_files = <<>>
  /\ file_index = 0
  /\ successful = 0
  /\ failed = 0
  /\ calls = <<>>

\* ------------------------------------------------ inputs of clean_text
\* Every character of the character set, an entity and a tag.
Pieces ==
  { <<"&">>, <<";">>, <<"l">>, <<"t">>, <<"<">>, <<">">>, <<".">>, <<" ">>,
    <<"\n">>, <<"&", "l", "t", ";">>, <<"<", "t", ">">> }

RECURSIVE Concats(_)
Concats(n) ==
  IF n = 0 THEN {<<>>}
  ELSE LET prev == Concats(n - 1)
       IN  prev \cup {p \o q : p \in prev, q \in Pieces}

InitClean ==
  /\ pc = "raw"
  /\ text \in Concats(MaxPieces)
  /\ cleaned = <<>>
  /\ recleaned = <<>>
  /\ html_content = <<>>
  /\ transcript = <<>>
  /\ NoRender
  /\ NoBatch

\* clean_text(text)
CleanText ==
  /\ pc = "raw"
  /\ cleaned' = clean_text(text)
  /\ pc' = "cleaned"
  /\ UNCHANGED <<text, recleaned, html_content, transcript, render, file_path, output_dir, batch>>

\* clean_text applied to its own result, as format_output does (line 139).
CleanAgain ==
  /\ pc = "cleaned"
  /\ recleaned' = clean_text(cleaned)
  /\ pc' = "recleaned"
  /\ UNCHANGED <<text, cleaned, html_content, transcript, render, file_path, output_dir, batch>>

NextClean == CleanText \/ CleanAgain

SpecClean == InitClean /\ [][NextClean]_vars

\* ------------------------------------------------- extract_speaker_and_text
(***************************************************************************)
(* A document is a sequence of tokens, the lexical units the patterns of   *)
(* extract_speaker_and_text tell apart:                                    *)
(*   P    <p ... data-index="..." ...>     p    any other <p ...>          *)
(*   /P   </p>                                                             *)
(*   S    <span ... data-speaker="true" ...>                               *)
(*   D    <span ... data-clipped="..." ... data-speaker="false" ...>       *)
(*   s    <span>                           /s   </span>                    *)
(*   txt  a non-empty run of characters other than '<'                     *)
(***************************************************************************)
Tok(k) == [t |-> k, s |-> <<>>]

Txt(str) == [t |-> "txt", s |-> str]

\* The position of the first token of kind k at or after j, 0 if none.
RECURSIVE FirstTok(_, _, _)
FirstTok(d, k, j) ==
  IF j > Len(d) THEN 0
  ELSE IF d[j].t = k THEN j
  ELSE FirstTok(d, k, j + 1)

\* re.findall(r'<p[^>]*data-index="[^"]*"[^>]*>(.*?)</p>', ..., re.DOTALL):
\* from each marked <p> to the first </p> after it, matches not overlapping.
RECURSIVE ParagraphsFrom(_, _)
ParagraphsFrom(d, i) ==
  IF i > Len(d) THEN <<>>
  ELSE LET j == FirstTok(d, "/P", i + 1)
       IN  IF d[i].t = "P" /\ j # 0
           THEN <<SubSeq(d, i + 1, j - 1)>> \o ParagraphsFrom(d, j + 1)
           ELSE ParagraphsFrom(d, i + 1)

Paragraphs(d) == ParagraphsFrom(d, 1)

\* Whether <open>([^<]+)</span> matches at position j, open a token kind.
SpanAt(par, open, j) ==
  /\ j + 2 <= Len(par)
  /\ par[j].t = open
  /\ par[j + 1].t = "txt"
  /\ par[j + 2].t = "/s"

\* The position of the first <span>text</span> at or after j, 0 if none.
RECURSIVE FirstBareSpan(_, _)
FirstBareSpan(par, j) ==
  IF j > Len(par) THEN 0
  ELSE IF SpanAt(par, "s", j) THEN j
  ELSE FirstBareSpan(par, j + 1)

\* re.search(r'<span[^>]*data-speaker="true"[^>]*>.*?<span>([^<]+)</span>',
\* paragraph, re.DOTALL): group 1 in a one-element sequence, <<>> for None.
RECURSIVE SpeakerMatchFrom(_, _)
SpeakerMatchFrom(par, i) ==
  IF i > Len(par) THEN <<>>
  ELSE IF par[i].t = "S" /\ FirstBareSpan(par, i + 1) # 0
  THEN <<par[FirstBareSpan(par, i + 1) + 1].s>>
  ELSE SpeakerMatchFrom(par, i + 1)

SpeakerMatch(par) == SpeakerMatchFrom(par, 1)

\* re.findall(r'<span[^>]*data-clipped="[^"]*"[^>]*data-speaker="false"
\* [^>]*>([^<]+)</span>', paragraph)
RECURSIVE DialogueSpansFrom(_, _)
DialogueSpansFrom(par, i) ==
  IF i > Len(par) THEN <<>>
  ELSE IF SpanAt(par, "D", i)
  THEN <<par[i + 1].s>> \o DialogueSpansFrom(par, i + 3)
  ELSE DialogueSpansFrom(par, i + 1)

DialogueSpans(par) == DialogueSpansFrom(par, 1)

\* ' '.join(xs)
RECURSIVE Join(_)
Join(xs) ==
  IF xs = <<>> THEN <<>>
  ELSE IF Len(xs) = 1 THEN xs[1]
  ELSE xs[1] \o <<" ">> \o Join(Tail(xs))

\* The loop body without the test of dialogue_spans.
ParagraphUtterancesUnguarded(par) ==
  IF SpeakerMatch(par) # <<>>
  THEN <<<<Strip(SpeakerMatch(par)[1]), Join(DialogueSpans(par))>>>>
  ELSE <<>>

\* The body of the loop over the paragraphs (lines 50-64): what one
\* paragraph appends to the transcript.
ParagraphUtterances(par) ==
  IF SpeakerMatch(par) # <<>> /\ DialogueSpans(par) # <<>>
  THEN <<<<Strip(SpeakerMatch(par)[1]), Join(DialogueSpans(par))>>>>
  ELSE <<>>

RECURSIVE ExtractFrom(_, _)
ExtractFrom(pars, k) ==
  IF k > Len(pars) THEN <<>>
  ELSE ParagraphUtterances(pars[k]) \o ExtractFrom(pars, k + 1)

\* TranscriptCleaner.extract_speaker_and_text
extract_speaker_and_text(d) == ExtractFrom(Paragraphs(d), 1)

\* ---------------------------------------------------- input documents
\* A speaker element, <span data-speaker="true"><span>name</span></span>.
Spk(name) == <<Tok("S"), Tok("s"), Txt(name), Tok("/s"), Tok("/s")>>

\* A dialogue fragment.
Dlg(w) == <<Tok("D"), Txt(w), Tok("/s")>>

\* The paragraph bodies documents are made of.
SegmentBodies ==
  { Spk(<<" ", "A", " ">>) \o Dlg(<<"l">>) \o Dlg(<<"t">>) \o Dlg(<<"l", "t">>),
    Spk(<<"B">>) \o Dlg(<<"t", ".">>),
    Spk(<<"B">>),
    Dlg(<<"l">>) \o Dlg(<<"t">>),
    <<Tok("S"), Txt(<<"A">>), Tok("/s")>> \o Dlg(<<"l">>),
    <<Tok("S"), Txt(<<"A">>), Tok("/s"), Tok("s"), Txt(<<"B">>), Tok("/s")>>
      \o Dlg(<<"l">>),
    Dlg(<<"l">>) \o Spk(<<"A">>) \o <<Tok("D"), Tok("/s"), Txt(<<"t">>)>>
      \o Dlg(<<"t">>),
    <<>> }

\* A paragraph, with the index marker or without it.
Blocks ==
  {<<Tok(m)>> \o body \o <<Tok("/P")>> : m \in {"P", "p"}, body \in SegmentBodies}

RECURSIVE Documents(_)
Documents(n) ==
  IF n = 0 THEN {<<>>}
  ELSE LET prev == Documents(n - 1)
       IN  prev \cup {d \o b : d \in prev, b \in Blocks}

InitExtract ==
  /\ pc = "read"
  /\ html_content \in Documents(MaxSegs)
  /\ transcript = <<>>
  /\ text = <<>>
  /\ NoCleaning
  /\ NoRender
  /\ NoBatch

\* transcript = self.extract_speaker_and_text(content)
Extract ==
  /\ pc = "read"
  /\ transcript' = extract_speaker_and_text(html_content)
  /\ pc' = "extracted"
  /\ UNCHANGED <<cleaning, html_content, render, file_path, output_dir, batch>>

NextExtract == Extract

SpecExtract == InitExtract /\ [][NextExtract]_vars

\* ------------------------------------------------------ organize_by_speaker
\* A dict is the sequence of its items in insertion order.
DictHas(d, key) == \E n \in 1..Len(d) : d[n].key = key

\* speakers[speaker].append(value), after speakers[speaker] = [] for a new key
DictAppend(d, key, value) ==
  IF DictHas(d, key)
  THEN [n \in 1..Len(d) |->
          IF d[n].key = key
          THEN [key |-> key, value |-> Append(d[n].value, value)]
          ELSE d[n]]
  ELSE Append(d, [key |-> key, value |-> <<value>>])

\* The loop body without the test of cleaned_dialogue.
OrganizeStepUnguarded(d, utterance) ==
  DictAppend(d, utterance[1], clean_text(utterance[2]))

\* The body of the loop of organize_by_speaker (lines 104-109).
OrganizeStep(d, utterance) ==
  IF clean_text(utterance[2]) # <<>>
  THEN DictAppend(d, utterance[1], clean_text(utterance[2]))
  ELSE d

RECURSIVE OrganizeFrom(_, _, _)
OrganizeFrom(tr, k, d) ==
  IF k > Len(tr) THEN d
  ELSE OrganizeFrom(tr, k + 1, OrganizeStep(d, tr[k]))

\* TranscriptCleaner.organize_by_speaker
organize_by_speaker(tr) == OrganizeFrom(tr, 1, <<>>)

\* ------------------------------------------------------------ the renderers
(***************************************************************************)
(* A rendered text is the sequence of its lines (the argument of           *)
(* "\n".join), a line the record of its kind and of the values formatted   *)
(* into it.  The time in the "Generated:" line is left out.                *)
(***************************************************************************)
Line(kind, num, speaker, str) ==
  [kind |-> kind, num |-> num, speaker |-> speaker, text |-> str]

\* The four header lines; title is "TRANSCRIPT" or "TRANSCRIPT (CHRONOLOGICAL)".
Header(title, filename) ==
  << Line(title, 0, <<>>, filename), Line("generated", 0, <<>>, <<>>),
     Line("=" , 0, <<>>, <<>>), Line("", 0, <<>>, <<>>) >>

\* The inner loop of format_output (lines 137-141): enumerate(dialogues, 1).
RECURSIVE DialogueLines(_, _)
DialogueLines(dialogues, i) ==
  IF i > Len(dialogues) THEN <<>>
  ELSE (IF clean_text(dialogues[i]) # <<>>
        THEN <<Line("entry", i, <<>>, clean_text(dialogues[i]))>>
        ELSE <<>>)
       \o DialogueLines(dialogues, i + 1)

\* The outer loop of format_output (lines 133-143).
RECURSIVE SpeakerLines(_, _)
SpeakerLines(d, n) ==
  IF n > Len(d) THEN <<>>
  ELSE <<Line("speaker", 0, d[n].key, <<>>), Line("-", 0, <<>>, <<>>)>>
       \o DialogueLines(d[n].value, 1)
       \o <<Line("", 0, <<>>, <<>>)>>
       \o SpeakerLines(d, n + 1)

\* TranscriptCleaner.format_output
format_output(d, filename) == Header("TRANSCRIPT", filename) \o SpeakerLines(d, 1)

\* The loop of format_chronological_output (lines 167-171):
\* enumerate(transcript, 1).
RECURSIVE ChronologicalLines(_, _)
ChronologicalLines(tr, i) ==
  IF i > Len(tr) THEN <<>>
  ELSE (IF clean_text(tr[i][2]) # <<>>
        THEN <<Line("entry", i, tr[i][1], clean_text(tr[i][2])),
               Line("", 0, <<>>, <<>>)>>
        ELSE <<>>)
       \o ChronologicalLines(tr, i + 1)

\* TranscriptCleaner.format_chronological_output
format_chronological_output(tr, filename) ==
  Header("TRANSCRIPT (CHRONOLOGICAL)", filename) \o ChronologicalLines(tr, 1)

\* ------------------------------------------------------------ process_file
\* process_file returns: the console shows the file, what was printed
\* about it and, in the counters, the result.
Return(result, log) ==
  /\ calls' = Append(calls, [file |-> file_path, result |-> result, log |-> log])
  /\ pc' = "returned"

\* An exception that leaves process_file and process_all_files.
Propagates(stage) ==
  /\ pc' = "aborted"
  /\ UNCHANGED calls

\* except Exception as e: print the error, return False (lines 231-233);
\* stage stands for str(e).
Caught(stage) == Return(FALSE, <<"error", stage>>)

\* open(path, 'w') succeeds and f.write raises: the file is left created
\* or truncated (lines 214-215 and 222-223).
WriteNothing(dir, path) == [dir EXCEPT ![path] = "truncated"]

\* A write that is skipped.
WriteSkipped(dir, path) == dir

\* with open(path, 'w', encoding='utf-8') as f: f.write(...)
\* (lines 214-215 and 222-223), without a fault.
WriteFile(dir, path) == [dir EXCEPT ![path] = "written"]

\* A guard that lets every dict pass.
NeverEmpty(d) == FALSE

\* not speakers (line 202)
NoValidSpeakers(d) == d = <<>>

\* with open(file_path, 'r', encoding='utf-8') as f: content = f.read()
ReadFile ==
  /\ pc = "open"
  /\ html_content' = content[file_path]
  /\ pc' = "read"
  /\ UNCHANGED <<cleaning, transcript, render, file_path, output_dir, batch>>

\* open or read raises.
ReadFault ==
  /\ pc = "open"
  /\ Caught("read")
  /\ UNCHANGED <<cleaning, html_content, transcript, render, file_path, output_dir,
                 input_dir, content, raw_files, file_index, successful, failed>>

\* extract_speaker_and_text raises.
ExtractFault ==
  /\ pc = "read"
  /\ Caught("extract")
  /\ UNCHANGED <<cleaning, html_content, transcript, render, file_path, output_dir,
                 input_dir, content, raw_files, file_index, successful, failed>>

\* if not transcript: print a warning, return False (lines 195-197)
NoTranscript ==
  /\ pc = "extracted"
  /\ transcript = <<>>
  /\ Return(FALSE, <<"warning", "no transcript data">>)
  /\ UNCHANGED <<cleaning, html_content, transcript, render, file_path, output_dir,
                 input_dir, content, raw_files, file_index, successful, failed>>

\* speakers = self.organize_by_speaker(transcript)
OrganizeBySpeaker ==
  /\ pc = "extracted"
  /\ transcript # <<>>
  /\ speakers' = organize_by_speaker(transcript)
  /\ pc' = "organized"
  /\ UNCHANGED <<cleaning, html_content, transcript, output_text,
                 chronological_text, file_path, output_dir, batch>>

\* if not speakers: print a warning, return False (lines 202-204)
NoSpeakers ==
  /\ pc = "organized"
  /\ NoValidSpeakers(speakers)
  /\ Return(FALSE, <<"warning", "no valid speakers">>)
  /\ UNCHANGED <<cleaning, html_content, transcript, render, file_path, output_dir,
                 input_dir, content, raw_files, file_index, successful, failed>>

\* output_text = self.format_output(speakers, file_path.name)
FormatOutput ==
  /\ pc = "organized"
  /\ ~NoValidSpeakers(speakers)
  /\ output_text' = format_output(speakers, file_path)
  /\ pc' = "formatted"
  /\ UNCHANGED <<cleaning, html_content, transcript, speakers,
                 chronological_text, file_path, output_dir, batch>>

\* The file <stem>_by_speaker.txt is written (lines 210-215).
WriteBySpeaker ==
  /\ pc = "formatted"
  /\ output_dir' = WriteFile(output_dir, <<file_path.stem, "_by_speaker.txt">>)
  /\ pc' = "saved"
  /\ UNCHANGED <<cleaning, html_content, transcript, render, file_path, batch>>

\* chronological_text = self.format_chronological_output(transcript, ...)
FormatChronological ==
  /\ pc = "saved"
  /\ chronological_text' = format_chronological_output(transcript, file_path)
  /\ pc' = "rendered"
  /\ UNCHANGED <<cleaning, html_content, transcript, speakers, output_text,
                 file_path, output_dir, batch>>

\* The file <stem>_chronological.txt is written (lines 219-223), the
\* names are printed and process_file returns True.
WriteChronological ==
  /\ pc = "rendered"
  /\ output_dir' = WriteFile(output_dir, <<file_path.stem, "_chronological.txt">>)
  /\ Return(TRUE, <<"created", "both files">>)
  /\ UNCHANGED <<cleaning, html_content, transcript, render, file_path,
                 input_dir, content, raw_files, file_index, successful, failed>>

\* format_output or format_chronological_output raises.
RenderFault ==
  /\ \/ pc = "organized" /\ ~NoValidSpeakers(speakers)
        /\ Caught("render by speaker")
     \/ pc = "saved" /\ Caught("render chronological")
  /\ UNCHANGED <<cleaning, html_content, transcript, render, file_path, output_dir,
                 input_dir, content, raw_files, file_index, successful, failed>>

\* Writing an output file raises: open does, and the file is as it was, or
\* f.write does, and the file is left created or truncated.
WriteFault ==
  /\ \E path \in {<<file_path.stem, "_by_speaker.txt">>,
                  <<file_path.stem, "_chronological.txt">>} :
       /\ \/ pc = "formatted" /\ path[2] = "_by_speaker.txt"
             /\ Caught("write by speaker")
          \/ pc = "rendered" /\ path[2] = "_chronological.txt"
             /\ Caught("write chronological")
       /\ \/ output_dir' = output_dir
          \/ output_dir' = WriteNothing(output_dir, path)
  /\ UNCHANGED <<cleaning, html_content, transcript, render, file_path,
                 input_dir, content, raw_files, file_index, successful, failed>>

\* --------------------------------------------------- input transcripts
\* Dialogue texts as extract_speaker_and_text yields them: not empty, no '<'.
\*   lt            cleans to lt
\*   (space)       cleans to the empty text
\*   t .           cleans to t.
\*   &l&lt;t>t;    cleans to &lt;      and that to <
\*   &l&lt;t>t;t>  cleans to &lt;t>    and that to the empty text
Dialogues ==
  { <<"l", "t">>,
    <<" ">>,
    <<"t", " ", ".">>,
    <<"&", "l", "&", "l", "t", ";", "t", ">", "t", ";">>,
    <<"&", "l", "&", "l", "t", ";", "t", ">", "t", ";", "t", ">">> }

SpeakerNames == {<<"A">>, <<"B">>}

Utterances == {<<sp, dlg>> : sp \in SpeakerNames, dlg \in Dialogues}

RECURSIVE Transcripts(_)
Transcripts(n) ==
  IF n = 0 THEN {<<>>}
  ELSE LET prev == Transcripts(n - 1)
       IN  prev \cup {Append(tr, u) : tr \in prev, u \in Utterances}

\* process_file on t.raw, from the transcript on, without faults.
InitRender ==
  /\ pc = "extracted"
  /\ transcript \in Transcripts(MaxUtt)
  /\ html_content = <<>>
  /\ NoCleaning
  /\ NoRender
  /\ NoBatch

NextRender ==
  \/ NoTranscript
  \/ OrganizeBySpeaker
  \/ NoSpeakers
  \/ FormatOutput
  \/ WriteBySpeaker
  \/ FormatChronological
  \/ WriteChronological

SpecRender == InitRender /\ [][NextRender]_vars

\* ------------------------------------------------------ process_all_files
\* input_dir.glob("*.raw") alone.
RawFilesUnfiltered(listing) == SelectSeq(listing, LAMBDA f : f.suffix = ".raw")

\* input_dir.glob("*.raw") without the file named example-meeting.raw
\* (line 239).
RawFiles(listing) ==
  SelectSeq(listing, LAMBDA f : f.suffix = ".raw" /\ f # ExampleFile)

\* The loop body after process_file returned (lines 254-258); the locals
\* of the call are gone.
Count ==
  /\ pc = "returned"
  /\ IF calls[Len(calls)].result
     THEN successful' = successful + 1 /\ failed' = failed
     ELSE failed' = failed + 1 /\ successful' = successful
  /\ file_index' = file_index + 1
  /\ pc' = "loop"
  /\ html_content' = <<>>
  /\ transcript' = <<>>
  /\ speakers' = <<>>
  /\ output_text' = <<>>
  /\ chronological_text' = <<>>
  /\ UNCHANGED <<cleaning, file_path, output_dir, input_dir, content, raw_files,
                 calls>>

\* raw_files = [...]; successful = 0; failed = 0 (lines 239-251)
ListFiles ==
  /\ pc = "start"
  /\ RawFiles(input_dir) # <<>>
  /\ raw_files' = RawFiles(input_dir)
  /\ file_index' = 1
  /\ successful' = 0
  /\ failed' = 0
  /\ pc' = "loop"
  /\ UNCHANGED <<cleaning, html_content, transcript, render, file_path,
                 output_dir, input_dir, content, calls>>

\* if not raw_files: print, return (lines 241-243)
NoRawFiles ==
  /\ pc = "start"
  /\ RawFiles(input_dir) = <<>>
  /\ raw_files' = <<>>
  /\ pc' = "no files"
  /\ UNCHANGED <<cleaning, html_content, transcript, render, file_path,
                 output_dir, input_dir, content, file_index, successful, failed,
                 calls>>

\* for file_path in raw_files: self.process_file(file_path)
CallProcessFile ==
  /\ pc = "loop"
  /\ file_index <= Len(raw_files)
  /\ file_path' = raw_files[file_index]
  /\ pc' = "open"
  /\ UNCHANGED <<cleaning, html_content, transcript, render, output_dir, batch>>

\* The loop is over: the summary is printed (lines 260-264).
Complete ==
  /\ pc = "loop"
  /\ file_index > Len(raw_files)
  /\ pc' = "complete"
  /\ UNCHANGED <<cleaning, html_content, transcript, render, file_path,
                 output_dir, batch>>

\* The documents of the input files: one with two utterances, one whose
\* paragraph has no speaker, one whose only fragment cleans to nothing.
FileDocuments ==
  { <<Tok("P")>> \o Spk(<<" ", "A", " ">>) \o Dlg(<<"l">>) \o Dlg(<<"t">>)
      \o <<Tok("/P"), Tok("P")>> \o Spk(<<"B">>) \o Dlg(<<"t", " ", ".">>)
      \o <<Tok("/P")>>,
    <<Tok("P")>> \o Dlg(<<"l">>) \o <<Tok("/P")>>,
    <<Tok("P")>> \o Spk(<<"A">>) \o Dlg(<<" ">>) \o <<Tok("/P")>> }

\* The entries an input directory may hold.
DirEntries ==
  {File("a", ".raw"), File("b", ".raw"), ExampleFile, File("notes", ".txt")}

Range(f) == {f[x] : x \in DOMAIN f}

RECURSIVE Listings(_)
Listings(n) ==
  IF n = 0 THEN {<<>>}
  ELSE LET prev == Listings(n - 1)
       IN  prev \cup UNION {{Append(l, e) : e \in DirEntries \ Range(l)} : l \in prev}

InitBatch ==
  /\ pc = "start"
  /\ input_dir \in Listings(MaxFiles)
  /\ content \in [{f \in Range(input_dir) : f.suffix = ".raw"} -> FileDocuments]
  /\ raw_files = <<>>
  /\ file_index = 0
  /\ successful = 0
  /\ failed = 0
  /\ calls = <<>>
  /\ file_path = File("", "")
  /\ output_dir = Untouched
  /\ html_content = <<>>
  /\ transcript = <<>>
  /\ NoCleaning
  /\ NoRender

NextBatch ==
  \/ ListFiles
  \/ NoRawFiles
  \/ CallProcessFile
  \/ ReadFile
  \/ ReadFault
  \/ Extract
  \/ ExtractFault
  \/ NoTranscript
  \/ OrganizeBySpeaker
  \/ NoSpeakers
  \/ FormatOutput
  \/ WriteBySpeaker
  \/ FormatChronological
  \/ WriteChronological
  \/ RenderFault
  \/ WriteFault
  \/ Count
  \/ Complete

SpecBatch == InitBatch /\ [][NextBatch]_vars

\* ------------------------------------------------------------ claims
\* Whether s holds a tag: a '<', one or more characters other than '>',
\* and a '>'.
HasTag(s) ==
  \E i, j \in 1..Len(s) :
    /\ j >= i + 2
    /\ s[i] = "<"
    /\ s[j] = ">"
    /\ \A k \in (i + 1)..(j - 1) : s[k] # ">"

\* C1: clean_text is idempotent: cleaning a cleaned text changes nothing.
C1_Idempotent == pc = "recleaned" => recleaned = cleaned

\* C2: the result of clean_text holds no markup tag.
C2_NoTagRemains == pc # "raw" => ~HasTag(cleaned)

\* C2's case: an input with a tag, cleaned.
C2_Witness == pc = "cleaned" /\ HasTag(text) /\ cleaned # <<>>

\* The segments of a document: the positions of its marked <p> tokens.
SegStarts(d) == {i \in 1..Len(d) : d[i].t = "P"}

\* The body of the segment that starts at i: up to the next </p>.
SegBody(d, i) ==
  LET j == CHOOSE j \in (i + 1)..Len(d) :
             d[j].t = "/P" /\ \A k \in (i + 1)..(j - 1) : d[k].t # "/P"
  IN  SubSeq(d, i + 1, j - 1)

\* The positions of the speaker elements of a segment that a name follows.
SpeakerStarts(par) ==
  {i \in 1..Len(par) :
     par[i].t = "S" /\ \E j \in (i + 1)..Len(par) : SpanAt(par, "s", j)}

\* The name of the segment's speaker match.
SpeakerOf(par) ==
  LET i == CHOOSE i \in SpeakerStarts(par) : \A k \in SpeakerStarts(par) : i <= k
      j == CHOOSE j \in (i + 1)..Len(par) :
             SpanAt(par, "s", j) /\ \A k \in (i + 1)..(j - 1) : ~SpanAt(par, "s", k)
  IN  par[j + 1].s

\* The positions of the dialogue fragments of a segment.
FragmentStarts(par) == {i \in 1..Len(par) : SpanAt(par, "D", i)}

\* The fragments at the positions F, in order, a space between neighbours.
RECURSIVE SpaceJoined(_, _)
SpaceJoined(par, F) ==
  IF F = {} THEN <<>>
  ELSE LET last == Max(F)
       IN  IF F = {last} THEN par[last + 1].s
           ELSE SpaceJoined(par, F \ {last}) \o <<" ">> \o par[last + 1].s

\* The segments that have a speaker match and a dialogue fragment.
Qualifying(d) ==
  {i \in SegStarts(d) :
     SpeakerStarts(SegBody(d, i)) # {} /\ FragmentStarts(SegBody(d, i)) # {}}

\* C5: the transcript holds one utterance per segment with a speaker match
\* and a dialogue fragment, in document order: the trimmed speaker name and
\* the fragments joined by single spaces.
C5_OnePerQualifyingSegment ==
  pc = "extracted" =>
    LET Q == Qualifying(html_content)
    IN  /\ Len(transcript) = Cardinality(Q)
        /\ \A i \in Q :
             LET n == Cardinality({k \in Q : k <= i})
                 par == SegBody(html_content, i)
             IN  /\ transcript[n][1] = Strip(SpeakerOf(par))
                 /\ Strip(transcript[n][1]) = transcript[n][1]
                 /\ transcript[n][2] = SpaceJoined(par, FragmentStarts(par))

\* C5's case: two utterances extracted, one from three fragments under a
\* name that needed trimming, from a document with a skipped segment.
C5_Witness ==
  /\ pc = "extracted"
  /\ Cardinality(SegStarts(html_content)) > Len(transcript)
  /\ \E n \in 1..Len(transcript) :
       transcript[n] = <<<<"A">>, <<"l", " ", "t", " ", "l", "t">>>>

\* The utterances of the transcript whose cleaned text is not empty.
Retained(tr) == {i \in 1..Len(tr) : clean_text(tr[i][2]) # <<>>}

\* The entry lines of a rendered text, in order.
Entries(lines) == SelectSeq(lines, LAMBDA ln : ln.kind = "entry")

\* C3: the numbers on the lines of the chronological output are 1, 2, ..., m,
\* m the count of the utterances whose cleaned text is not empty.
C3_ChronologicalNumbering ==
  chronological_text # <<>> =>
    /\ Len(Entries(chronological_text)) = Cardinality(Retained(transcript))
    /\ \A n \in 1..Len(Entries(chronological_text)) :
         Entries(chronological_text)[n].num = n

\* How many items of the groups are the text c under the speaker sp.
InGroups(d, sp, c) ==
  Cardinality(UNION {{<<n, m>> : m \in {m \in 1..Len(d[n].value) :
                                          d[n].key = sp /\ d[n].value[m] = c}} :
                     n \in 1..Len(d)})

\* How many retained utterances of the speaker sp clean to the text c.
InTranscript(tr, sp, c) ==
  Cardinality({i \in Retained(tr) : tr[i][1] = sp /\ clean_text(tr[i][2]) = c})

\* The first retained utterance of the speaker sp.
FirstRetained(tr, sp) ==
  CHOOSE i \in Retained(tr) :
    tr[i][1] = sp /\ \A k \in Retained(tr) : tr[k][1] = sp => i <= k

\* C4: the groups hold exactly the retained utterances, cleaned: the same
\* (speaker, text) pairs as often, the speakers in the order of their
\* first retained utterance, each group in transcript order, no group and
\* no text empty.
C4_GroupsCompleteAndOrdered ==
  pc = "organized" =>
    /\ \A sp \in SpeakerNames :
         \A c \in {clean_text(dlg) : dlg \in Dialogues} \cup {<<>>} :
           InGroups(speakers, sp, c) = InTranscript(transcript, sp, c)
    /\ \A n, m \in 1..Len(speakers) :
         n < m => /\ speakers[n].key # speakers[m].key
                  /\ FirstRetained(transcript, speakers[n].key)
                       < FirstRetained(transcript, speakers[m].key)
    /\ \A n \in 1..Len(speakers) :
         LET I == {i \in Retained(transcript) : transcript[i][1] = speakers[n].key}
         IN  /\ speakers[n].value # <<>>
             /\ Len(speakers[n].value) = Cardinality(I)
             /\ \A i \in I :
                  speakers[n].value[Cardinality({k \in I : k <= i})]
                    = clean_text(transcript[i][2])
             /\ \A m \in 1..Len(speakers[n].value) : speakers[n].value[m] # <<>>

\* C4's case: two speakers grouped, the speaker of the first utterance
\* second because that utterance cleaned to nothing.
C4_Witness ==
  /\ pc = "organized"
  /\ Len(speakers) = 2
  /\ transcript[1][1] = speakers[2].key
  /\ Cardinality(Retained(transcript)) < Len(transcript)

\* The position of the header line of the n-th speaker.
SpeakerLineAt(lines, n) ==
  CHOOSE i \in 1..Len(lines) :
    /\ lines[i].kind = "speaker"
    /\ Cardinality({k \in 1..i : lines[k].kind = "speaker"}) = n

\* The entry lines under the header of the n-th speaker.
SectionEntries(lines, n) ==
  LET from == SpeakerLineAt(lines, n)
      upto == IF n < Cardinality({k \in 1..Len(lines) : lines[k].kind = "speaker"})
              THEN SpeakerLineAt(lines, n + 1)
              ELSE Len(lines) + 1
  IN  Entries(SubSeq(lines, from, upto - 1))

\* C8: under each speaker's header the grouped output has one line per
\* utterance of the group, numbered 1, 2, ..., k in group order, each with
\* the utterance's cleaned text.
C8_GroupLines ==
  output_text # <<>> =>
    \A n \in 1..Len(speakers) :
      /\ output_text[SpeakerLineAt(output_text, n)].speaker = speakers[n].key
      /\ Len(SectionEntries(output_text, n)) = Len(speakers[n].value)
      /\ \A m \in 1..Len(SectionEntries(output_text, n)) :
           /\ SectionEntries(output_text, n)[m].num = m
           /\ SectionEntries(output_text, n)[m].text = speakers[n].value[m]

\* What the run did to the two output files of the document f.
BySpeakerFile(f) == output_dir[<<f.stem, "_by_speaker.txt">>]

ChronologicalFile(f) == output_dir[<<f.stem, "_chronological.txt">>]

\* The positions of a run inside process_all_files and process_file.
ControlPoints ==
  { "start", "no files", "loop", "open", "read", "extracted", "organized",
    "formatted", "saved", "rendered", "returned", "complete" }

\* C6: the batch run visits every file of the list once and in order, a
\* fault never takes it out of the loop, and when it completes successful + failed is the
\* number of files, failed the number of calls that returned False.
C6_FailureContained ==
  /\ Len(calls) <= Len(raw_files)
  /\ \A n \in 1..Len(calls) : calls[n].file = raw_files[n]
  /\ pc \in ControlPoints
  /\ pc = "returned" => ENABLED Count
  /\ pc = "loop" => ENABLED (CallProcessFile \/ Complete)
  /\ pc = "complete" =>
       /\ Len(calls) = Len(raw_files)
       /\ successful + failed = Len(raw_files)
       /\ failed = Cardinality({n \in 1..Len(calls) : ~calls[n].result})
       /\ successful = Cardinality({n \in 1..Len(calls) : calls[n].result})

\* C6's case: a completed run in which a file raised and a later file
\* succeeded.
C6_Witness ==
  /\ pc = "complete"
  /\ \E n, m \in 1..Len(calls) :
       n < m /\ calls[n].log[1] = "error" /\ calls[m].result
  /\ failed = 1
  /\ successful = 1

\* Whether the document of the file f yields no utterance, or utterances
\* but no speaker group.
SoftFailing(f) ==
  \/ extract_speaker_and_text(content[f]) = <<>>
  \/ organize_by_speaker(extract_speaker_and_text(content[f])) = <<>>

\* C7: for a document that yields no utterance or no speaker group
\* process_file returns False, neither output file of the document is
\* created or modified, and the run goes on to the next file.
C7_SoftFailureWritesNothing ==
  \A k \in 1..Len(raw_files) :
    SoftFailing(raw_files[k]) =>
      /\ BySpeakerFile(raw_files[k]) = "untouched"
      /\ ChronologicalFile(raw_files[k]) = "untouched"
      /\ k <= Len(calls) => ~calls[k].result
      /\ (k <= Len(calls) /\ pc = "returned") => ENABLED Count
      /\ (k < Len(raw_files) /\ pc = "complete") => Len(calls) > k

\* C7's case: a completed run whose first file warned of no valid
\* speakers and whose second file was rendered.
C7_Witness ==
  /\ pc = "complete"
  /\ Len(calls) = 2
  /\ calls[1].log = <<"warning", "no valid speakers">>
  /\ SoftFailing(raw_files[1])
  /\ calls[2].result

\* The files process_file was called with, the running call included.
Processed ==
  {calls[n].file : n \in 1..Len(calls)}
    \cup (IF pc \in {"start", "loop", "complete", "no files"} THEN {}
          ELSE {file_path})

\* C9: the file named example-meeting.raw is never given to process_file,
\* and every other *.raw file of the directory is.
C9_ExampleExcluded ==
  /\ ExampleFile \notin Processed
  /\ pc \in {"complete", "no files"} =>
       Processed = {f \in Range(input_dir) : f.suffix = ".raw" /\ f # ExampleFile}

\* C9's case: a completed run over a directory that lists the example
\* file between two other *.raw files, its text that of a file that
\* was rendered.
C9_Witness ==
  /\ pc = "complete"
  /\ Len(input_dir) = 3
  /\ input_dir[2] = ExampleFile
  /\ Len(calls) = 2
  /\ calls[1].result
  /\ content[ExampleFile] = content[calls[1].file]

\* C10: a call of process_file returned True and wrote both files, or
\* returned False and wrote neither.
C10_AllOrNothing ==
  \A n \in 1..Len(calls) :
    \/ /\ calls[n].result
       /\ BySpeakerFile(calls[n].file) = "written"
       /\ ChronologicalFile(calls[n].file) = "written"
    \/ /\ ~calls[n].result
       /\ BySpeakerFile(calls[n].file) # "written"
       /\ ChronologicalFile(calls[n].file) # "written"

\* C10, amended: a call that returned True wrote both files.  A call that
\* returned False on a warning or on a fault in reading, extracting or
\* rendering the by-speaker text touched neither file; on a fault in
\* writing the by-speaker file it left that file as it was or truncated,
\* and the chronological file as it was; on a fault in rendering or writing
\* the chronological file it left the by-speaker file written, and the
\* chronological file as it was or truncated.
C10_WrittenUpToTheFault ==
  \A n \in 1..Len(calls) :
    LET by == BySpeakerFile(calls[n].file)
        ch == ChronologicalFile(calls[n].file)
        log == calls[n].log
    IN  /\ calls[n].result <=> log[1] = "created"
        /\ calls[n].result => by = "written" /\ ch = "written"
        /\ (log[1] = "warning"
              \/ log[2] \in {"read", "extract", "render by speaker"})
             => by = "untouched" /\ ch = "untouched"
        /\ log[2] = "write by speaker"
             => by \in {"untouched", "truncated"} /\ ch = "untouched"
        /\ log[2] \in {"render chronological", "write chronological"}
             => by = "written" /\ ch \in {"untouched", "truncated"}

\* C10's case: a file counted as failed on a fault in writing the
\* chronological file, its by-speaker file written.
C10_Witness ==
  /\ pc = "complete"
  /\ failed = 1
  /\ calls[1].log = <<"error", "write chronological">>
  /\ BySpeakerFile(calls[1].file) = "written"
  /\ ChronologicalFile(calls[1].file) = "truncated"

====
